---- MODULE Spec2Model ----
(***************************************************************************)
(* Model of the album ranking engine of the-gauntlet,                      *)
(* src/src/services/localAlbumService.ts.  The localStorage entry          *)
(* 'ranked_albums' is the variable store: the array of album records that  *)
(* JSON.parse yields for it (the absent key reads as the empty array).     *)
(* An album record carries id, mbid, rank, points and battledWith; the     *)
(* display fields (title, artist, releaseYear, coverArtUrl) are never      *)
(* inspected by the engine and are left out.                               *)
(***************************************************************************)
EXTENDS Integers, Sequences, FiniteSets, TLC

\* ------------------------------------------------------------------ bounds
\* Number of calls that write the store (successful addAlbum, deleteAlbum,
\* updateAlbumRank, reorderAlbums and recordBattle calls) in a behaviour.
MaxOps == 5
\* Length of the stored array that the load specification starts from.
MaxLen == 3
\* Number of calls that write the store in a behaviour of the short-session
\* specification, which has every operation.
MaxCalls == 4
\* Length of the stored array of earlier-version records that the first-write
\* specification starts from.
MaxStored == 2

\* External catalog keys (AlbumSearchResult.id) offered to addAlbum, in the
\* order the catalog lists them.
Catalog == <<"m1", "m2", "m3">>
Mbids == {Catalog[i] : i \in 1..Len(Catalog)}

\* `album_${Date.now()}`: the id is the tag followed by the clock reading.
AlbumId(t) == <<"album", t>>
\* winnerId === null (a draw): no id has this value.
NullId == <<>>
\* An id that addAlbum never hands out (the clock reads at least 1).
AbsentId == AlbumId(0)

VARIABLES
  store,   \* parsed content of localStorage['ranked_albums']
  now,     \* last value Date.now() returned to addAlbum
  ops,     \* number of calls that wrote the store so far
  last,    \* history: the last operation and how it ended
  played,  \* history: sets of mbids of present items whose battle succeeded
  placed,  \* history: where the last manual reorder put the dragged item
  tally    \* history: battles counted since the collection was all-zero

vars == <<store, now, ops, last, played, placed, tally>>

\* ------------------------------------------------------------- array helpers
\* Array.prototype.includes
Includes(s, x) == \E i \in 1..Len(s) : s[i] = x

\* Array.prototype.findIndex(album => album.id === id), 1-based; 0 stands for -1.
FindIndex(albums, id) ==
  IF \E i \in 1..Len(albums) : albums[i].id = id
  THEN CHOOSE i \in 1..Len(albums) :
         /\ albums[i].id = id
         /\ \A j \in 1..(i - 1) : albums[j].id # id
  ELSE 0

\* Array.prototype.splice(index, 1)
Splice(s, idx) == [i \in 1..(Len(s) - 1) |-> IF i < idx THEN s[i] ELSE s[i + 1]]

\* Math.max(...albums.map(a => a.rank)), 0 for the empty array
MaxRank(albums) ==
  IF Len(albums) = 0 THEN 0
  ELSE CHOOSE r \in {albums[i].rank : i \in 1..Len(albums)} :
         \A i \in 1..Len(albums) : albums[i].rank <= r

\* ------------------------------------------------------------------ getAlbums
\* What the key can hold besides a JSON array of objects.  Content that is no
\* array is written as a one-element sequence naming its kind: "absent" (no such
\* key), "empty" (the empty string), "text" (not JSON), or the JSON values
\* "null", "number", "string" and "object".  An array element that is no object
\* is written as a record naming its kind: "null", or "number" (a number or a
\* boolean).
NotArray(kind) == <<[content |-> kind]>>
NotObject(kind) == [element |-> kind]
IsNotArray(st) == Len(st) = 1 /\ "content" \in DOMAIN st[1]
IsNotObject(album) == "element" \in DOMAIN album

\* The try block of getAlbums throws: JSON.parse on text that is not JSON,
\* albums.map on a value that is no array, album.points on a null element.  An
\* absent key and the empty string are falsy and read as [].
LoadThrows(st) ==
  IF IsNotArray(st)
  THEN st[1].content \notin {"absent", "empty"}
  ELSE \E i \in 1..Len(st) : IsNotObject(st[i]) /\ st[i].element = "null"

\* The map of getAlbums: a record without points gets 0, one without
\* battledWith gets the empty array, present values are kept.  Spreading a
\* number or a boolean copies no property.
\* (variant: battledWith is always set to the empty array)
FillDefaultsReset(album) ==
  IF IsNotObject(album)
  THEN [points |-> 0, battledWith |-> <<>>]
  ELSE [id |-> album.id,
        mbid |-> album.mbid,
        rank |-> album.rank,
        points |-> IF "points" \in DOMAIN album THEN album.points ELSE 0,
        battledWith |-> <<>>]
FillDefaults(album) ==
  IF IsNotObject(album)
  THEN [points |-> 0, battledWith |-> <<>>]
  ELSE [id |-> album.id,
        mbid |-> album.mbid,
        rank |-> album.rank,
        points |-> IF "points" \in DOMAIN album THEN album.points ELSE 0,
        battledWith |-> IF "battledWith" \in DOMAIN album THEN album.battledWith ELSE <<>>]

\* Place x into a sequence already ordered by descending points, behind every
\* element that does not compare after it (b.points - a.points <= 0).
\* (variant: x goes in front of the elements that have its points)
InsertByPointsAhead(sorted, x) ==
  LET k == Cardinality({i \in 1..Len(sorted) : sorted[i].points > x.points})
  IN  SubSeq(sorted, 1, k) \o <<x>> \o SubSeq(sorted, k + 1, Len(sorted))
InsertByPoints(sorted, x) ==
  LET k == Cardinality({i \in 1..Len(sorted) : sorted[i].points >= x.points})
  IN  SubSeq(sorted, 1, k) \o <<x>> \o SubSeq(sorted, k + 1, Len(sorted))

\* albums.sort((a, b) => b.points - a.points): stable, descending by points.
RECURSIVE SortByPoints(_)
SortByPoints(albums) ==
  IF Len(albums) = 0 THEN <<>>
  ELSE InsertByPoints(SortByPoints(SubSeq(albums, 1, Len(albums) - 1)),
                      albums[Len(albums)])

\* albums.forEach((album, index) => album.rank = index + 1)
\* (variant: the forEach is missing, the stored rank is returned)
AssignRanksKeepStored(albums) == albums
\* The assignment overwrites the rank of an item that has one and gives one
\* to an item that has none.
AssignRanks(albums) ==
  [i \in 1..Len(albums) |->
     IF "rank" \in DOMAIN albums[i]
     THEN [albums[i] EXCEPT !.rank = i]
     ELSE [f \in DOMAIN albums[i] \cup {"rank"} |-> IF f = "rank" THEN i ELSE albums[i][f]]]

\* The catch block returns [].
getAlbums(st) ==
  IF IsNotArray(st) \/ LoadThrows(st)
  THEN <<>>
  ELSE AssignRanks(SortByPoints([i \in 1..Len(st) |-> FillDefaults(st[i])]))

\* ------------------------------------------------------------------- addAlbum
\* Every operation yields the array it leaves in the store, the error it
\* throws ("none" when it returns) and the value it returns.
Outcome(st, err, ret) == [store |-> st, err |-> err, ret |-> ret]

\* t is the value Date.now() returns inside the call.
\* (variant: the existing-album check is missing)
addAlbumUnchecked(st, mbid, t) ==
  LET albums == getAlbums(st)
      newAlbum == [id |-> AlbumId(t), mbid |-> mbid, rank |-> MaxRank(albums) + 1,
                   points |-> 0, battledWith |-> <<>>]
  IN  Outcome(Append(albums, newAlbum), "none", <<newAlbum>>)
\* (variant: the new album is put in front of the array, not pushed)
addAlbumInFront(st, mbid, t) ==
  LET albums == getAlbums(st)
      newAlbum == [id |-> AlbumId(t), mbid |-> mbid, rank |-> MaxRank(albums) + 1,
                   points |-> 0, battledWith |-> <<>>]
  IN  IF \E i \in 1..Len(albums) : albums[i].mbid = mbid
      THEN Outcome(st, "duplicate", <<>>)
      ELSE Outcome(<<newAlbum>> \o albums, "none", <<newAlbum>>)
addAlbum(st, mbid, t) ==
  LET albums == getAlbums(st)
      newAlbum == [id |-> AlbumId(t), mbid |-> mbid, rank |-> MaxRank(albums) + 1,
                   points |-> 0, battledWith |-> <<>>]
  IN  IF \E i \in 1..Len(albums) : albums[i].mbid = mbid
      THEN Outcome(st, "duplicate", <<>>)
      ELSE Outcome(Append(albums, newAlbum), "none", <<newAlbum>>)

\* ------------------------------------------------------------ updateAlbumRank
\* The two forEach loops of updateAlbumRank: the rank an album with rank r
\* gets when the album of rank oldRank moves to newRank.
\* (variant: moving down stops one short of the target rank)
ShiftRankShort(r, oldRank, newRank) ==
  IF oldRank < newRank /\ r > oldRank /\ r < newRank THEN r - 1
  ELSE IF oldRank > newRank /\ r >= newRank /\ r < oldRank THEN r + 1
  ELSE r
ShiftRank(r, oldRank, newRank) ==
  IF oldRank < newRank /\ r > oldRank /\ r <= newRank THEN r - 1
  ELSE IF oldRank > newRank /\ r >= newRank /\ r < oldRank THEN r + 1
  ELSE r

\* (variant: an unknown id makes the call return without a word)
updateAlbumRankSilent(st, albumId, newRank) ==
  LET albums == getAlbums(st)
      albumIndex == FindIndex(albums, albumId)
      oldRank == albums[albumIndex].rank
      shifted == [i \in 1..Len(albums) |->
                    [albums[i] EXCEPT !.rank = ShiftRank(@, oldRank, newRank)]]
      saved == [shifted EXCEPT ![albumIndex].rank = newRank]
  IN  IF albumIndex = 0
      THEN Outcome(st, "none", <<>>)
      ELSE Outcome(saved, "none", <<saved[albumIndex]>>)
updateAlbumRank(st, albumId, newRank) ==
  LET albums == getAlbums(st)
      albumIndex == FindIndex(albums, albumId)
      oldRank == albums[albumIndex].rank
      shifted == [i \in 1..Len(albums) |->
                    [albums[i] EXCEPT !.rank = ShiftRank(@, oldRank, newRank)]]
      saved == [shifted EXCEPT ![albumIndex].rank = newRank]
  IN  IF albumIndex = 0
      THEN Outcome(st, "notfound", <<>>)
      ELSE Outcome(saved, "none", <<saved[albumIndex]>>)

\* ---------------------------------------------------------------- deleteAlbum
\* (variant: the removed id is also struck from the opponents of the others)
deleteAlbumCleans(st, albumId) ==
  LET albums == getAlbums(st)
      albumIndex == FindIndex(albums, albumId)
      deletedAlbum == albums[albumIndex]
      spliced == Splice(albums, albumIndex)
      saved == [i \in 1..Len(spliced) |->
                  [spliced[i] EXCEPT
                     !.rank = IF @ > deletedAlbum.rank THEN @ - 1 ELSE @,
                     !.battledWith = SelectSeq(@, LAMBDA id : id # albumId)]]
  IN  IF albumIndex = 0
      THEN Outcome(st, "notfound", <<>>)
      ELSE Outcome(saved, "none", <<>>)
deleteAlbum(st, albumId) ==
  LET albums == getAlbums(st)
      albumIndex == FindIndex(albums, albumId)
      deletedAlbum == albums[albumIndex]
      spliced == Splice(albums, albumIndex)
      saved == [i \in 1..Len(spliced) |->
                  IF spliced[i].rank > deletedAlbum.rank
                  THEN [spliced[i] EXCEPT !.rank = @ - 1]
                  ELSE spliced[i]]
  IN  IF albumIndex = 0
      THEN Outcome(st, "notfound", <<>>)
      ELSE Outcome(saved, "none", <<>>)

\* --------------------------------------------------------------- recordBattle
\* album1.battledWith.includes(album2.id)
HasBattled(albums, i1, i2) == Includes(albums[i1].battledWith, albums[i2].id)

\* album1.battledWith.push(album2.id); album2.battledWith.push(album1.id).
\* The second push acts on the array the first one left: with i1 = i2 both
\* names denote one object.
\* (variant: only album1 records the pairing)
RecordPairingOneSided(albums, i1, i2) ==
  [albums EXCEPT ![i1].battledWith = Append(@, albums[i2].id)]
RecordPairing(albums, i1, i2) ==
  LET first == [albums EXCEPT ![i1].battledWith = Append(@, albums[i2].id)]
  IN  [first EXCEPT ![i2].battledWith = Append(@, albums[i1].id)]

\* The last else branch of the winner chain throws 'Invalid winner ID'.
ValidWinner(albums, i1, i2, winnerId) ==
  \/ winnerId = NullId
  \/ winnerId = albums[i1].id
  \/ winnerId = albums[i2].id

\* The winner chain: a draw gives each side 1, a win gives the winner 3.
\* (variant: any decisive result is credited to album1)
AwardPointsFirstSide(albums, i1, i2, winnerId) ==
  IF winnerId = NullId
  THEN LET first == [albums EXCEPT ![i1].points = @ + 1]
       IN  [first EXCEPT ![i2].points = @ + 1]
  ELSE [albums EXCEPT ![i1].points = @ + 3]
\* (variant: a decisive result also takes a point from the loser)
AwardPointsLoserPays(albums, i1, i2, winnerId) ==
  IF winnerId = NullId
  THEN LET first == [albums EXCEPT ![i1].points = @ + 1]
       IN  [first EXCEPT ![i2].points = @ + 1]
  ELSE IF winnerId = albums[i1].id
  THEN LET first == [albums EXCEPT ![i1].points = @ + 3]
       IN  [first EXCEPT ![i2].points = @ - 1]
  ELSE IF winnerId = albums[i2].id
  THEN LET first == [albums EXCEPT ![i2].points = @ + 3]
       IN  [first EXCEPT ![i1].points = @ - 1]
  ELSE albums
AwardPoints(albums, i1, i2, winnerId) ==
  IF winnerId = NullId
  THEN LET first == [albums EXCEPT ![i1].points = @ + 1]
       IN  [first EXCEPT ![i2].points = @ + 1]
  ELSE IF winnerId = albums[i1].id
  THEN [albums EXCEPT ![i1].points = @ + 3]
  ELSE IF winnerId = albums[i2].id
  THEN [albums EXCEPT ![i2].points = @ + 3]
  ELSE albums

\* Index at which the stable sort by descending points leaves albums[i].
SortedPosition(albums, i) ==
  Cardinality({j \in 1..Len(albums) :
                 \/ albums[j].points > albums[i].points
                 \/ albums[j].points = albums[i].points /\ j <= i})

\* The BattleResult; winner and loser are <<album>> or <<>> for null.  They
\* are the objects of the array, so they carry the rank assigned after the sort.
BattleResult(scored, i1, i2, winnerId) ==
  LET ranked(i) == [scored[i] EXCEPT !.rank = SortedPosition(scored, i)]
  IN  IF winnerId = NullId
      THEN [winner |-> <<>>, loser |-> <<>>, isDraw |-> TRUE,
            winnerPoints |-> 1, loserPoints |-> 1]
      ELSE IF winnerId = scored[i1].id
      THEN [winner |-> <<ranked(i1)>>, loser |-> <<ranked(i2)>>, isDraw |-> FALSE,
            winnerPoints |-> 3, loserPoints |-> 0]
      ELSE [winner |-> <<ranked(i2)>>, loser |-> <<ranked(i1)>>, isDraw |-> FALSE,
            winnerPoints |-> 3, loserPoints |-> 0]

\* (variant: the pairing is saved before the winner is validated)
recordBattleSavesPairing(st, album1Id, album2Id, winnerId) ==
  LET albums == getAlbums(st)
      album1Index == FindIndex(albums, album1Id)
      album2Index == FindIndex(albums, album2Id)
      paired == RecordPairing(albums, album1Index, album2Index)
      scored == AwardPoints(paired, album1Index, album2Index, winnerId)
  IN  IF album1Index = 0 \/ album2Index = 0
      THEN Outcome(st, "notfound", <<>>)
      ELSE IF HasBattled(albums, album1Index, album2Index)
      THEN Outcome(st, "already", <<>>)
      ELSE IF ~ValidWinner(albums, album1Index, album2Index, winnerId)
      THEN Outcome(paired, "invalidwinner", <<>>)
      ELSE Outcome(AssignRanks(SortByPoints(scored)), "none",
                   <<BattleResult(scored, album1Index, album2Index, winnerId)>>)

\* (variant: the sort after the scoring is missing)
recordBattleUnsorted(st, album1Id, album2Id, winnerId) ==
  LET albums == getAlbums(st)
      album1Index == FindIndex(albums, album1Id)
      album2Index == FindIndex(albums, album2Id)
      paired == RecordPairing(albums, album1Index, album2Index)
      scored == AwardPoints(paired, album1Index, album2Index, winnerId)
  IN  IF album1Index = 0 \/ album2Index = 0
      THEN Outcome(st, "notfound", <<>>)
      ELSE IF HasBattled(albums, album1Index, album2Index)
      THEN Outcome(st, "already", <<>>)
      ELSE IF ~ValidWinner(albums, album1Index, album2Index, winnerId)
      THEN Outcome(st, "invalidwinner", <<>>)
      ELSE Outcome(AssignRanks(scored), "none",
                   <<BattleResult(scored, album1Index, album2Index, winnerId)>>)
recordBattle(st, album1Id, album2Id, winnerId) ==
  LET albums == getAlbums(st)
      album1Index == FindIndex(albums, album1Id)
      album2Index == FindIndex(albums, album2Id)
      paired == RecordPairing(albums, album1Index, album2Index)
      scored == AwardPoints(paired, album1Index, album2Index, winnerId)
  IN  IF album1Index = 0 \/ album2Index = 0
      THEN Outcome(st, "notfound", <<>>)
      ELSE IF HasBattled(albums, album1Index, album2Index)
      THEN Outcome(st, "already", <<>>)
      ELSE IF ~ValidWinner(albums, album1Index, album2Index, winnerId)
      THEN Outcome(st, "invalidwinner", <<>>)
      ELSE Outcome(AssignRanks(SortByPoints(scored)), "none",
                   <<BattleResult(scored, album1Index, album2Index, winnerId)>>)

\* -------------------------------------------------------------- reorderAlbums
reorderAlbums(st, draggedId, targetId) ==
  LET albums == getAlbums(st)
      draggedIndex == FindIndex(albums, draggedId)
      targetIndex == FindIndex(albums, targetId)
      updated == updateAlbumRank(st, draggedId, albums[targetIndex].rank)
  IN  IF draggedIndex = 0 \/ targetIndex = 0
      THEN Outcome(st, "notfound", <<>>)
      ELSE Outcome(updated.store, "none", getAlbums(updated.store))

\* --------------------------------------------------------- getPossibleBattles
\* The inner loop for one i: the index pairs <<i, j>>, j ascending from i + 1,
\* whose albums[i].battledWith does not include albums[j].id.
\* (variant: the inner loop starts at j = i)
PossibleWithSelf(albums, i) ==
  SelectSeq([k \in 1..(Len(albums) - i + 1) |-> <<i, i + k - 1>>],
            LAMBDA p : ~Includes(albums[p[1]].battledWith, albums[p[2]].id))
PossibleWith(albums, i) ==
  SelectSeq([k \in 1..(Len(albums) - i) |-> <<i, i + k>>],
            LAMBDA p : ~Includes(albums[p[1]].battledWith, albums[p[2]].id))

\* The outer loop from index i on.
RECURSIVE PossibleFrom(_, _)
PossibleFrom(albums, i) ==
  IF i > Len(albums) THEN <<>>
  ELSE PossibleWith(albums, i) \o PossibleFrom(albums, i + 1)

getPossibleBattles(st) ==
  LET albums == getAlbums(st)
      pairs == PossibleFrom(albums, 1)
  IN  [k \in 1..Len(pairs) |-> <<albums[pairs[k][1]], albums[pairs[k][2]]>>]

\* The first possible battle as <<pair>>, or <<>> for null.
getNextBattle(st) ==
  LET possibleBattles == getPossibleBattles(st)
  IN  IF Len(possibleBattles) > 0 THEN <<possibleBattles[1]>> ELSE <<>>

\* ------------------------------------------------------------ history records
\* The last operation: its name and the error it threw ("none" when it
\* returned).
Call(op, err) == [op |-> op, err |-> err]

NoPlacement == [on |-> FALSE, mbid |-> "", before |-> {}, after |-> {}]

\* The placement a manual reorder persists: the items ranked before and after
\* the dragged one in the array that updateAlbumRank saved.
Placement(saved, draggedId) ==
  LET d == FindIndex(saved, draggedId)
  IN  [on |-> TRUE, mbid |-> saved[d].mbid,
       before |-> {saved[i].mbid : i \in {j \in 1..Len(saved) : saved[j].rank < saved[d].rank}},
       after |-> {saved[i].mbid : i \in {j \in 1..Len(saved) : saved[j].rank > saved[d].rank}}]

ZeroTally == [valid |-> TRUE, K |-> 0, D |-> 0,
              draws |-> [m \in Mbids |-> 0], decisive |-> [m \in Mbids |-> 0]]

AllZero(st) == \A i \in 1..Len(st) : st[i].points = 0

Ranked(st) == {st[i].mbid : i \in 1..Len(st)}
PresentIds == {store[i].id : i \in 1..Len(store)}
IdArgs == PresentIds \cup {AbsentId}

\* The search results a user adds: a key that is ranked already, or the first
\* key of the catalog listing that is not.
Addable(st) ==
  {Catalog[i] : i \in {j \in 1..Len(Catalog) :
      \/ Catalog[j] \in Ranked(st)
      \/ \A k \in 1..(j - 1) : Catalog[k] \in Ranked(st)}}

\* The winnerId arguments: either side, null, or an id that is neither.
WinnerArgs(album1Id, album2Id) == {album1Id, album2Id, NullId, AbsentId}

\* ----------------------------------------------------------------- the machine
Init ==
  /\ store = <<>>
  /\ now = 0
  /\ ops = 0
  /\ last = Call("init", "none")
  /\ played = {}
  /\ placed = NoPlacement
  /\ tally = ZeroTally

GetAlbumsOp ==
  /\ last' = Call("getAlbums", "none")
  /\ UNCHANGED <<store, now, ops, played, placed, tally>>

GetPossibleBattlesOp ==
  /\ last' = Call("getPossibleBattles", "none")
  /\ UNCHANGED <<store, now, ops, played, placed, tally>>

GetNextBattleOp ==
  /\ last' = Call("getNextBattle", "none")
  /\ UNCHANGED <<store, now, ops, played, placed, tally>>

\* Date.now() never runs backwards: it reads the same millisecond as at the
\* previous add, or a later one.
AddAlbumOp ==
  \E mbid \in Addable(store), t \in {now, now + 1} :
    LET r == addAlbum(store, mbid, t)
        ok == r.err = "none"
    IN  /\ t >= 1
        /\ ok => ops < MaxOps
        /\ store' = r.store
        /\ now' = IF ok THEN t ELSE now
        /\ ops' = IF ok THEN ops + 1 ELSE ops
        /\ last' = Call("addAlbum", r.err)
        /\ UNCHANGED <<played, placed, tally>>

DeleteAlbumOp ==
  \E albumId \in IdArgs :
    LET r == deleteAlbum(store, albumId)
        ok == r.err = "none"
        gone == getAlbums(store)[FindIndex(getAlbums(store), albumId)].mbid
    IN  /\ ok => ops < MaxOps
        /\ store' = r.store
        /\ ops' = IF ok THEN ops + 1 ELSE ops
        /\ last' = Call("deleteAlbum", r.err)
        /\ played' = IF ok THEN {p \in played : gone \notin p} ELSE played
        /\ placed' = IF ~ok \/ ~placed.on THEN placed
                     ELSE IF placed.mbid = gone THEN NoPlacement
                     ELSE [placed EXCEPT !.before = @ \ {gone}, !.after = @ \ {gone}]
        /\ tally' = IF ~ok THEN tally
                    ELSE IF AllZero(r.store) THEN ZeroTally
                    ELSE [ZeroTally EXCEPT !.valid = FALSE]
        /\ UNCHANGED now

UpdateAlbumRankOp ==
  \E albumId \in IdArgs, newRank \in 0..(Len(store) + 1) :
    LET r == updateAlbumRank(store, albumId, newRank)
        ok == r.err = "none"
    IN  /\ ok => ops < MaxOps
        /\ store' = r.store
        /\ ops' = IF ok THEN ops + 1 ELSE ops
        /\ last' = Call("updateAlbumRank", r.err)
        /\ placed' = IF ok THEN NoPlacement ELSE placed
        /\ UNCHANGED <<now, played, tally>>

ReorderAlbumsOp ==
  \E draggedId \in IdArgs, targetId \in IdArgs :
    LET r == reorderAlbums(store, draggedId, targetId)
        ok == r.err = "none"
    IN  /\ ok => ops < MaxOps
        /\ store' = r.store
        /\ ops' = IF ok THEN ops + 1 ELSE ops
        /\ last' = Call("reorderAlbums", r.err)
        /\ placed' = IF ok THEN Placement(r.store, draggedId) ELSE placed
        /\ UNCHANGED <<now, played, tally>>

RecordBattleOp ==
  \E album1Id \in IdArgs, album2Id \in IdArgs :
    \E winnerId \in WinnerArgs(album1Id, album2Id) :
      LET r == recordBattle(store, album1Id, album2Id, winnerId)
          albums == getAlbums(store)
          i1 == FindIndex(albums, album1Id)
          i2 == FindIndex(albums, album2Id)
          pair == {albums[i1].mbid, albums[i2].mbid}
          ok == r.err = "none"
      IN  /\ ok => ops < MaxOps
          /\ store' = r.store
          /\ ops' = IF ok THEN ops + 1 ELSE ops
          /\ last' = Call("recordBattle", r.err)
          /\ played' = IF ok THEN played \cup {pair} ELSE played
          /\ placed' = IF ok THEN NoPlacement ELSE placed
          /\ tally' = IF ~ok \/ ~tally.valid THEN tally
                      ELSE IF winnerId = NullId
                      THEN [tally EXCEPT !.D = @ + 1,
                              !.draws = [m \in Mbids |-> IF m \in pair THEN @[m] + 1 ELSE @[m]]]
                      ELSE [tally EXCEPT !.K = @ + 1,
                              !.decisive = [m \in Mbids |-> IF m \in pair THEN @[m] + 1 ELSE @[m]]]
          /\ UNCHANGED now

Next ==
  \/ GetAlbumsOp
  \/ AddAlbumOp
  \/ DeleteAlbumOp
  \/ UpdateAlbumRankOp
  \/ ReorderAlbumsOp
  \/ RecordBattleOp
  \/ GetPossibleBattlesOp
  \/ GetNextBattleOp

Spec == Init /\ [][Next]_vars

\* The whole engine in short sessions: every operation, at most MaxCalls calls
\* that write the store.
NextShort ==
  \/ GetAlbumsOp /\ ops' <= MaxCalls
  \/ AddAlbumOp /\ ops' <= MaxCalls
  \/ DeleteAlbumOp /\ ops' <= MaxCalls
  \/ UpdateAlbumRankOp /\ ops' <= MaxCalls
  \/ ReorderAlbumsOp /\ ops' <= MaxCalls
  \/ RecordBattleOp /\ ops' <= MaxCalls
  \/ GetPossibleBattlesOp /\ ops' <= MaxCalls
  \/ GetNextBattleOp /\ ops' <= MaxCalls

SpecShort == Init /\ [][NextShort]_vars

\* The engine without the manual re-ranking operations.
NextBattle ==
  \/ GetAlbumsOp
  \/ AddAlbumOp
  \/ DeleteAlbumOp
  \/ RecordBattleOp
  \/ GetPossibleBattlesOp
  \/ GetNextBattleOp

SpecBattle == Init /\ [][NextBattle]_vars

\* The engine without battles: every item stays at 0 points.
NextManual ==
  \/ GetAlbumsOp
  \/ AddAlbumOp
  \/ DeleteAlbumOp
  \/ UpdateAlbumRankOp
  \/ ReorderAlbumsOp

SpecManual == Init /\ [][NextManual]_vars

\* ------------------------------------------------- loading an arbitrary store
\* What localStorage may hold when the page opens: records written by any
\* earlier version, in any order, with any rank, with or without points and
\* battledWith.
StoredPoints == {0, 1, 3}
StoredRanks == {1, 2}

StoredRecord(i, rank, hasPoints, points, hasBattledWith) ==
  LET base == [id |-> AlbumId(i), mbid |-> "m1", rank |-> rank]
  IN  IF hasPoints /\ hasBattledWith
      THEN [id |-> base.id, mbid |-> base.mbid, rank |-> rank, points |-> points,
            battledWith |-> <<>>]
      ELSE IF hasPoints
      THEN [id |-> base.id, mbid |-> base.mbid, rank |-> rank, points |-> points]
      ELSE IF hasBattledWith
      THEN [id |-> base.id, mbid |-> base.mbid, rank |-> rank, battledWith |-> <<>>]
      ELSE base

InitLoad ==
  /\ \E n \in 0..MaxLen :
       \E rank \in [1..n -> StoredRanks], points \in [1..n -> StoredPoints],
          hasPoints \in [1..n -> BOOLEAN], hasBattledWith \in [1..n -> BOOLEAN] :
         /\ \A i \in 1..n : ~hasPoints[i] => points[i] = 0
         /\ store = [i \in 1..n |->
                       StoredRecord(i, rank[i], hasPoints[i], points[i], hasBattledWith[i])]
  /\ now = 0
  /\ ops = 0
  /\ last = Call("init", "none")
  /\ played = {}
  /\ placed = NoPlacement
  /\ tally = ZeroTally

NextLoad == GetAlbumsOp

SpecLoad == InitLoad /\ [][NextLoad]_vars

\* ------------------------------------------- first write over earlier records
\* The i-th record an earlier version of the engine stored: added at clock
\* reading i, ranked by position, with or without points and battledWith.
LegacyRecord(i, hasPoints, points, hasBattledWith, battledWith) ==
  IF hasPoints /\ hasBattledWith
  THEN [id |-> AlbumId(i), mbid |-> Catalog[i], rank |-> i, points |-> points,
        battledWith |-> battledWith]
  ELSE IF hasPoints
  THEN [id |-> AlbumId(i), mbid |-> Catalog[i], rank |-> i, points |-> points]
  ELSE IF hasBattledWith
  THEN [id |-> AlbumId(i), mbid |-> Catalog[i], rank |-> i, battledWith |-> battledWith]
  ELSE [id |-> AlbumId(i), mbid |-> Catalog[i], rank |-> i]

\* The opponents a stored record may list: none, or the id handed out at the
\* neighbouring clock reading.
LegacyOpponents(i) == {<<>>, <<AlbumId((i % MaxStored) + 1)>>}

\* The page opens on such records; the clock has passed their ids.
InitLegacy ==
  /\ \E n \in 0..MaxStored :
       \E hasPoints \in [1..n -> BOOLEAN], points \in [1..n -> {0, 3}],
          hasBattledWith \in [1..n -> BOOLEAN],
          battledWith \in [1..n -> UNION {LegacyOpponents(i) : i \in 1..n}] :
         /\ \A i \in 1..n : ~hasPoints[i] => points[i] = 0
         /\ \A i \in 1..n : battledWith[i] \in LegacyOpponents(i)
         /\ \A i \in 1..n : ~hasBattledWith[i] => battledWith[i] = <<>>
         /\ store = [i \in 1..n |->
                       LegacyRecord(i, hasPoints[i], points[i],
                                    hasBattledWith[i], battledWith[i])]
         /\ now = n
  /\ ops = 0
  /\ last = Call("init", "none")
  /\ played = {}
  /\ placed = NoPlacement
  /\ tally = ZeroTally

\* Reads at any time, and the first call that writes the store.
NextLegacy ==
  \/ GetAlbumsOp
  \/ ops = 0 /\ AddAlbumOp
  \/ ops = 0 /\ DeleteAlbumOp
  \/ ops = 0 /\ UpdateAlbumRankOp
  \/ ops = 0 /\ ReorderAlbumsOp
  \/ ops = 0 /\ RecordBattleOp

SpecLegacy == InitLegacy /\ [][NextLegacy]_vars

\* --------------------------------------------------- loading unreadable content
\* What the key may hold when it was not written by the engine.
StoredContent == {"absent", "empty", "text", "null", "number", "string", "object"}
StoredElements ==
  {NotObject("null"), NotObject("number"),
   StoredRecord(1, 1, TRUE, 0, TRUE), StoredRecord(2, 2, FALSE, 0, FALSE)}

InitCorrupt ==
  /\ store \in {NotArray(kind) : kind \in StoredContent}
               \cup UNION {[1..n -> StoredElements] : n \in 1..MaxLen}
  /\ now = 0
  /\ ops = 0
  /\ last = Call("init", "none")
  /\ played = {}
  /\ placed = NoPlacement
  /\ tally = ZeroTally

SpecCorrupt == InitCorrupt /\ [][NextLoad]_vars

\* ===================================================================== claims
Ranks(albums) == {albums[i].rank : i \in 1..Len(albums)}

\* The entry of albums with the given catalog key (keys are unique among the
\* items of a collection the engine wrote).
ByMbid(albums, mbid) ==
  albums[CHOOSE i \in 1..Len(albums) : albums[i].mbid = mbid]

SumPoints(albums) ==
  LET RECURSIVE upto(_)
      upto(n) == IF n = 0 THEN 0 ELSE upto(n - 1) + albums[n].points
  IN  upto(Len(albums))

Returned(op) == last.op = op /\ last.err = "none"

\* C1: whatever the store holds, getAlbums() returns as many items as are
\* stored, their ranks are exactly 1..N, and an item with more points than
\* another has the smaller rank.
C1_LoadRanksByPoints ==
  LET albums == getAlbums(store)
  IN  /\ Len(albums) = Len(store)
      /\ Ranks(albums) = 1..Len(store)
      /\ \A i, j \in 1..Len(albums) :
           albums[i].points > albums[j].points => albums[i].rank < albums[j].rank

\* A load has run on three stored records that are out of points order and
\* whose stored ranks are no permutation.
C1_Witness ==
  /\ Returned("getAlbums")
  /\ Len(store) = 3
  /\ Ranks(store) # 1..3
  /\ "points" \in DOMAIN store[1] /\ "points" \in DOMAIN store[3]
  /\ "points" \notin DOMAIN store[2]
  /\ store[1].points < store[3].points

\* The rank the claim gives an item of rank r when the item of rank oldRank is
\* dragged onto the item of rank newRank.
MovedRank(r, oldRank, newRank) ==
  IF r = oldRank THEN newRank
  ELSE IF oldRank < r /\ r <= newRank THEN r - 1
  ELSE IF newRank <= r /\ r < oldRank THEN r + 1
  ELSE r

\* C2: in the collection that reorderAlbums(draggedId, targetId) returns, the
\* dragged item has the rank the target had, the items between the two are
\* shifted by one toward the vacated position, and the ranks are 1..N.
C2_ReorderReturnsMove ==
  \A draggedId, targetId \in PresentIds :
    LET before == getAlbums(store)
        oldRank == before[FindIndex(before, draggedId)].rank
        newRank == before[FindIndex(before, targetId)].rank
        r == reorderAlbums(store, draggedId, targetId)
    IN  /\ r.err = "none"
        /\ Ranks(r.ret) = 1..Len(before)
        /\ \A i \in 1..Len(before) :
             ByMbid(r.ret, before[i].mbid).rank = MovedRank(before[i].rank, oldRank, newRank)

\* C3: from a successful reorderAlbums until the next successful recordBattle,
\* what getAlbums() returns keeps the dragged item behind the items the reorder
\* put before it and ahead of the items the reorder put after it.
C3_ManualOrderShown ==
  placed.on =>
    LET albums == getAlbums(store)
        dragged == ByMbid(albums, placed.mbid)
    IN  \A i \in 1..Len(albums) :
          /\ albums[i].mbid \in placed.before => albums[i].rank < dragged.rank
          /\ albums[i].mbid \in placed.after => albums[i].rank > dragged.rank

\* C4: no two items of the collection have the same id.
C4_UniqueIds ==
  \A i, j \in 1..Len(store) : i # j => store[i].id # store[j].id

\* C5: no item's battledWith holds the item's own id, and recordBattle(id, id, w)
\* records no pairing and awards no points.
C5_NoSelfBattle ==
  /\ \A i \in 1..Len(store) : ~Includes(store[i].battledWith, store[i].id)
  /\ \A id \in PresentIds :
       \A winnerId \in {id, NullId} :
         LET r == recordBattle(store, id, id, winnerId)
         IN  r.err # "none" /\ r.store = store

\* C6: for any two items A and B of the collection, B.id is in A.battledWith
\* exactly when A.id is in B.battledWith.
C6_SymmetricOpponents ==
  \A i, j \in 1..Len(store) :
    i # j => (Includes(store[i].battledWith, store[j].id)
                <=> Includes(store[j].battledWith, store[i].id))

\* C7: once recordBattle has succeeded on two items, recordBattle on the same
\* two items, in either argument order and with any winnerId, throws the
\* already-battled error and leaves the store as it was.
C7_ReplayRejected ==
  \A album1Id, album2Id \in PresentIds :
    \A winnerId \in WinnerArgs(album1Id, album2Id) :
      LET albums == getAlbums(store)
          one == albums[FindIndex(albums, album1Id)]
          two == albums[FindIndex(albums, album2Id)]
          r == recordBattle(store, album1Id, album2Id, winnerId)
      IN  {one.mbid, two.mbid} \in played => r.err = "already" /\ r.store = store

\* A repeated battle was refused while two distinct items with a recorded
\* battle are in the collection.
C7_Witness ==
  /\ last.op = "recordBattle" /\ last.err = "already"
  /\ \E i, j \in 1..Len(store) :
       /\ store[i].id # store[j].id
       /\ {store[i].mbid, store[j].mbid} \in played

\* C8: a successful recordBattle on two distinct items adds 1 point to each on
\* a draw; otherwise it adds 3 points to the winner and none to the other.
C8_ScoringPolicy ==
  \A album1Id, album2Id \in PresentIds :
    \A winnerId \in {album1Id, album2Id, NullId} :
      LET albums == getAlbums(store)
          one == albums[FindIndex(albums, album1Id)]
          two == albums[FindIndex(albums, album2Id)]
          r == recordBattle(store, album1Id, album2Id, winnerId)
          gain(id) == IF winnerId = NullId THEN 1 ELSE IF winnerId = id THEN 3 ELSE 0
      IN  album1Id # album2Id /\ r.err = "none" =>
            /\ ByMbid(r.store, one.mbid).points = one.points + gain(album1Id)
            /\ ByMbid(r.store, two.mbid).points = two.points + gain(album2Id)

\* A battle was recorded and left a winner with 3 points and a loser with 0
\* that list each other as opponents.
C8_Witness ==
  /\ Returned("recordBattle")
  /\ \E i, j \in 1..Len(store) :
       /\ store[i].id # store[j].id
       /\ store[i].points = 3 /\ store[j].points = 0
       /\ Includes(store[i].battledWith, store[j].id)
       /\ Includes(store[j].battledWith, store[i].id)

\* C9: counting from a collection whose items all have 0 points, with no
\* removal since, after K decisive battles and D draws the points sum to
\* 3K + 2D, and an item that took part in draws only has as many points as
\* draws it took part in.
C9_TallyMatchesPoints ==
  tally.valid =>
    /\ SumPoints(store) = 3 * tally.K + 2 * tally.D
    /\ \A i \in 1..Len(store) :
         tally.decisive[store[i].mbid] = 0 => store[i].points = tally.draws[store[i].mbid]

\* C10 as claimed: recordBattle on the ids of two present items with a winnerId
\* that is neither of them nor null throws the invalid-winner error and leaves
\* the store as it was.
C10_InvalidWinnerError ==
  \A album1Id, album2Id \in PresentIds :
    \A winnerId \in IdArgs \ {album1Id, album2Id} :
      LET r == recordBattle(store, album1Id, album2Id, winnerId)
      IN  album1Id # album2Id => r.err = "invalidwinner" /\ r.store = store

\* C10 as amended: such a call always throws and leaves the store as it was;
\* the error is the invalid-winner error when album2's id is not in album1's
\* battledWith, and the already-battled error when it is.
C10_InvalidWinnerNoWrite ==
  \A album1Id, album2Id \in PresentIds :
    \A winnerId \in IdArgs \ {album1Id, album2Id} :
      LET albums == getAlbums(store)
          one == albums[FindIndex(albums, album1Id)]
          r == recordBattle(store, album1Id, album2Id, winnerId)
      IN  /\ r.store = store
          /\ r.err = IF Includes(one.battledWith, album2Id)
                     THEN "already" ELSE "invalidwinner"

\* A call with an invalid winner was refused on a collection of two distinct
\* items that had not battled.
C10_Witness ==
  /\ last.op = "recordBattle" /\ last.err = "invalidwinner"
  /\ \E i, j \in 1..Len(store) :
       /\ store[i].id # store[j].id
       /\ ~Includes(store[i].battledWith, store[j].id)

\* The clock readings addAlbum can get in the current state.
Clock == {t \in {now, now + 1} : t >= 1}

\* C11: addAlbum with a catalog key that an item of the collection already has
\* throws the duplicate error and leaves the store as it was, and no two items
\* of the collection have the same catalog key.
C11_DuplicateRejected ==
  /\ \A i, j \in 1..Len(store) : i # j => store[i].mbid # store[j].mbid
  /\ \A mbid \in Ranked(store) :
       \A t \in Clock :
         LET r == addAlbum(store, mbid, t)
         IN  r.err = "duplicate" /\ r.store = store

\* An add of a key already ranked was refused on a collection of two items.
C11_Witness ==
  /\ last.op = "addAlbum" /\ last.err = "duplicate"
  /\ Len(store) = 2

\* C12: addAlbum with a key not yet ranked, on a collection of N items, returns
\* an item with 0 points, no opponents and rank N + 1; the next getAlbums()
\* returns N + 1 items, the new one last, and the N earlier ones as getAlbums()
\* returned them before the call.
C12_AddAppendsLast ==
  \A mbid \in Mbids \ Ranked(store) :
    \A t \in Clock :
      LET before == getAlbums(store)
          N == Len(before)
          r == addAlbum(store, mbid, t)
          after == getAlbums(r.store)
      IN  /\ r.err = "none"
          /\ r.ret[1].points = 0 /\ r.ret[1].battledWith = <<>> /\ r.ret[1].rank = N + 1
          /\ Len(after) = N + 1
          /\ after[N + 1] = r.ret[1]
          /\ \A i \in 1..N : after[i] = before[i]

\* An item was added behind two items of which one has points.
C12_Witness ==
  /\ Returned("addAlbum")
  /\ Len(store) = 3
  /\ store[1].points > 0
  /\ store[3].points = 0 /\ store[3].battledWith = <<>> /\ store[3].rank = 3

\* C13: for a key not yet ranked, addAlbum followed by deleteAlbum of the id
\* that addAlbum returned leaves getAlbums() as it was before the add.
C13_AddThenDeleteRestores ==
  \A mbid \in Mbids \ Ranked(store) :
    \A t \in Clock :
      LET added == addAlbum(store, mbid, t)
          deleted == deleteAlbum(added.store, added.ret[1].id)
      IN  /\ added.err = "none"
          /\ deleted.err = "none"
          /\ getAlbums(deleted.store) = getAlbums(store)

\* The rank the claim gives an item of rank r when the item of rank goneRank
\* is removed.
ClosedRank(r, goneRank) == IF r > goneRank THEN r - 1 ELSE r

\* C14: deleteAlbum(id) with id in a collection of N items leaves exactly the
\* items whose id is not id, each with its rank lowered by 1 if it was behind
\* the removed item and unchanged otherwise, and the ranks saved are 1..N-1.
C14_DeleteClosesRanks ==
  \A albumId \in PresentIds :
    LET before == getAlbums(store)
        N == Len(before)
        gone == before[FindIndex(before, albumId)]
        r == deleteAlbum(store, albumId)
    IN  /\ r.err = "none"
        /\ Len(r.store) = N - 1
        /\ \A i \in 1..Len(r.store) : r.store[i].id # albumId
        /\ \A i \in 1..N :
             before[i].mbid # gone.mbid =>
               \E j \in 1..Len(r.store) :
                 r.store[j] = [before[i] EXCEPT !.rank = ClosedRank(@, gone.rank)]
        /\ Ranks(r.store) = 1..(N - 1)

\* Ids that no item of the collection has.
AbsentIds == {AbsentId, AlbumId(now + 1)} \ PresentIds

\* C15: deleteAlbum, updateAlbumRank, reorderAlbums and recordBattle called
\* with an id that no item has (in either id argument, whatever the other
\* arguments) throw the not-found error and leave the store as it was.
C15_AbsentIdRejected ==
  \A absent \in AbsentIds :
    /\ LET r == deleteAlbum(store, absent)
       IN  r.err = "notfound" /\ r.store = store
    /\ \A newRank \in 0..(Len(store) + 1) :
         LET r == updateAlbumRank(store, absent, newRank)
         IN  r.err = "notfound" /\ r.store = store
    /\ \A other \in IdArgs \cup {absent} :
         /\ LET r == reorderAlbums(store, absent, other)
            IN  r.err = "notfound" /\ r.store = store
         /\ LET r == reorderAlbums(store, other, absent)
            IN  r.err = "notfound" /\ r.store = store
         /\ \A winnerId \in WinnerArgs(absent, other) :
              /\ LET r == recordBattle(store, absent, other, winnerId)
                 IN  r.err = "notfound" /\ r.store = store
              /\ LET r == recordBattle(store, other, absent, winnerId)
                 IN  r.err = "notfound" /\ r.store = store

\* A call with an unknown id was refused on a collection of two items that
\* have battled.
C15_Witness ==
  /\ last.op \in {"deleteAlbum", "updateAlbumRank", "reorderAlbums", "recordBattle"}
  /\ last.err = "notfound"
  /\ Len(store) = 2
  /\ store[1].points > 0

\* C16: getNextBattle() returns null exactly when any two distinct items of the
\* collection each have the other's id in battledWith.
C16_NullIffRoundRobin ==
  getNextBattle(store) = <<>>
    <=> \A i, j \in 1..Len(store) :
          i # j => /\ Includes(store[i].battledWith, store[j].id)
                   /\ Includes(store[j].battledWith, store[i].id)

\* C17: after a successful addAlbum, deleteAlbum, recordBattle, reorderAlbums
\* or updateAlbumRank (whatever newRank) the ranks in the store are exactly
\* 1..N, each held by one of the N items.
C17_RanksArePermutation ==
  (last.err = "none" /\ last.op \in {"addAlbum", "deleteAlbum", "recordBattle",
                                     "reorderAlbums", "updateAlbumRank"})
    => Ranks(store) = 1..Len(store)

\* C18: in every step of the engine an item that enters the collection has 0
\* points, and an item that stays in the collection has at least the points it
\* had before the step.
C18_PointsNeverDecrease ==
  [][\A j \in 1..Len(store') :
       /\ store'[j].mbid \notin Ranked(store) => store'[j].points = 0
       /\ \A i \in 1..Len(store) :
            store[i].mbid = store'[j].mbid => store'[j].points >= store[i].points]_vars

\* An item that won a battle kept its 3 points through a manual re-ranking
\* next to an item with none.
C18_Witness ==
  /\ Returned("updateAlbumRank")
  /\ \E i, j \in 1..Len(store) : store[i].points = 3 /\ store[j].points = 0

\* Content that is not a list of item records: no array, or an array with an
\* element that is no object.
Corrupt(st) == IsNotArray(st) \/ \E i \in 1..Len(st) : IsNotObject(st[i])

\* C19: while the key is absent or holds content that is not a list of item
\* records, getAlbums() returns the empty collection, and a call of getAlbums
\* leaves the content as it was.
C19_CorruptReadsEmpty ==
  [][last'.op = "getAlbums" =>
       /\ store' = store
       /\ Corrupt(store) => getAlbums(store) = <<>>]_vars

\* C20: the result of a successful recordBattle has isDraw true, no winner, no
\* loser and 1 point for each side when winnerId is null; otherwise isDraw is
\* false, the winner is the participant whose id is winnerId, the loser is the
\* other participant, and the points are 3 and 0.
C20_BattleResultShape ==
  \A album1Id, album2Id \in PresentIds :
    \A winnerId \in {album1Id, album2Id, NullId} :
      LET albums == getAlbums(store)
          one == albums[FindIndex(albums, album1Id)]
          two == albums[FindIndex(albums, album2Id)]
          r == recordBattle(store, album1Id, album2Id, winnerId)
          result == r.ret[1]
      IN  r.err = "none" =>
            IF winnerId = NullId
            THEN /\ result.isDraw
                 /\ result.winner = <<>> /\ result.loser = <<>>
                 /\ result.winnerPoints = 1 /\ result.loserPoints = 1
            ELSE /\ ~result.isDraw
                 /\ Len(result.winner) = 1 /\ Len(result.loser) = 1
                 /\ result.winner[1].id = winnerId
                 /\ result.winner[1].mbid \in {one.mbid, two.mbid}
                 /\ result.loser[1].mbid \in {one.mbid, two.mbid} \ {result.winner[1].mbid}
                 /\ result.winnerPoints = 3 /\ result.loserPoints = 0

\* Position in albums of the item with the given catalog key.
PositionOf(albums, mbid) == CHOOSE i \in 1..Len(albums) : albums[i].mbid = mbid

\* C21: the array a successful recordBattle saves holds the loaded items by
\* descending points, the item at position k has rank k, and items with equal
\* points stand in the order they had in the collection loaded by the call.
C21_BattleSortsStably ==
  \A album1Id, album2Id \in PresentIds :
    \A winnerId \in {album1Id, album2Id, NullId} :
      LET albums == getAlbums(store)
          saved == recordBattle(store, album1Id, album2Id, winnerId).store
      IN  recordBattle(store, album1Id, album2Id, winnerId).err = "none" =>
            /\ Len(saved) = Len(albums)
            /\ \A k \in 1..Len(saved) : saved[k].rank = k
            /\ \A k, l \in 1..Len(saved) :
                 k < l =>
                   /\ saved[k].points >= saved[l].points
                   /\ saved[k].points = saved[l].points =>
                        PositionOf(albums, saved[k].mbid) < PositionOf(albums, saved[l].mbid)

\* From m1, m2, m3 at 0 points, m1 has beaten m2: the store holds m1, m2, m3
\* with ranks 1, 2, 3.
C21_Witness ==
  /\ Returned("recordBattle")
  /\ Len(store) = 3
  /\ store[1].mbid = "m1" /\ store[2].mbid = "m2" /\ store[3].mbid = "m3"
  /\ store[1].points = 3 /\ store[2].points = 0 /\ store[3].points = 0
  /\ store[1].battledWith = <<store[2].id>>
  /\ store[1].id # store[2].id
  /\ \A k \in 1..3 : store[k].rank = k

\* C22: updateAlbumRank(id, newRank) with id present and newRank in 1..N saves
\* the loaded items, each with the rank a move of the item from its loaded rank
\* to newRank gives it; the saved ranks are exactly 1..N, and with newRank the
\* loaded rank nothing changes.
C22_UpdateRankIsMove ==
  \A albumId \in PresentIds :
    \A newRank \in 1..Len(store) :
      LET albums == getAlbums(store)
          oldRank == albums[FindIndex(albums, albumId)].rank
          r == updateAlbumRank(store, albumId, newRank)
      IN  /\ r.err = "none"
          /\ Len(r.store) = Len(albums)
          /\ \A i \in 1..Len(albums) :
               r.store[i] = [albums[i] EXCEPT !.rank = MovedRank(@, oldRank, newRank)]
          /\ Ranks(r.store) = 1..Len(albums)
          /\ oldRank = newRank => r.store = albums
          /\ r.ret[1].rank = newRank

\* The first of three items was moved to rank 3: the two behind it moved up.
C22_Witness ==
  /\ Returned("updateAlbumRank")
  /\ Len(store) = 3
  /\ store[1].rank = 3 /\ store[2].rank = 1 /\ store[3].rank = 2

\* What C23 says of the list getPossibleBattles() returns on st: its entries
\* are pairs of loaded items at positions i < j, they are exactly the position
\* pairs whose first item does not list the id of the second, none is listed
\* twice, they stand by ascending i and then ascending j, and getNextBattle()
\* returns the first entry, or null when there is none.
PossibleBattlesListed(st) ==
  LET albums == getAlbums(st)
      pairs == getPossibleBattles(st)
      At(k) == <<PositionOf(albums, pairs[k][1].mbid), PositionOf(albums, pairs[k][2].mbid)>>
      wanted == {p \in (1..Len(albums)) \X (1..Len(albums)) :
                   p[1] < p[2] /\ ~Includes(albums[p[1]].battledWith, albums[p[2]].id)}
  IN  /\ \A k \in 1..Len(pairs) :
           pairs[k] = <<albums[At(k)[1]], albums[At(k)[2]]>>
      /\ {At(k) : k \in 1..Len(pairs)} = wanted
      /\ Len(pairs) = Cardinality(wanted)
      /\ \A k, l \in 1..Len(pairs) :
           k < l => \/ At(k)[1] < At(l)[1]
                    \/ At(k)[1] = At(l)[1] /\ At(k)[2] < At(l)[2]
      /\ getNextBattle(st) = IF Len(pairs) = 0 THEN <<>> ELSE <<pairs[1]>>

\* C23: a call of getPossibleBattles or getNextBattle returns that listing and
\* leaves the store as it was, so that a second call returns the same.
C23_PossibleBattlesInOrder ==
  [][last'.op \in {"getPossibleBattles", "getNextBattle"} =>
       /\ store' = store
       /\ PossibleBattlesListed(store)]_vars

\* getPossibleBattles ran on three items of which two have battled: two pairs
\* are left.
C23_Witness ==
  /\ last.op = "getPossibleBattles"
  /\ Len(store) = 3
  /\ C4_UniqueIds
  /\ store[1].points = 3
  /\ Len(getPossibleBattles(store)) = 2

\* C24: the possible pairs number at most N(N-1)/2; recording the pair that
\* getNextBattle() returns, with either member or nobody as the winner,
\* succeeds and leaves exactly one possible pair fewer; and once
\* getNextBattle() returns null no recordBattle on two different items of
\* the collection succeeds.
C24_BattlePhaseTerminates ==
  LET next == getNextBattle(store)
      remaining == Len(getPossibleBattles(store))
  IN  /\ 2 * remaining <= Len(store) * (Len(store) - 1)
      /\ next # <<>> =>
           \A winnerId \in {next[1][1].id, next[1][2].id, NullId} :
             LET r == recordBattle(store, next[1][1].id, next[1][2].id, winnerId)
             IN  /\ r.err = "none"
                 /\ Len(getPossibleBattles(r.store)) = remaining - 1
      /\ next = <<>> =>
           \A i, j \in 1..Len(store) : \A winnerId \in {store[i].id, store[j].id, NullId} :
             i # j => recordBattle(store, store[i].id, store[j].id, winnerId).err # "none"

\* C29: recordBattle accepts every pair getPossibleBattles() returns, passed
\* in the returned order with either member's id or null as the winner: the
\* call fails neither as not found nor as already battled.
C29_PossiblePairAccepted ==
  LET pairs == getPossibleBattles(store)
  IN  \A k \in 1..Len(pairs) : \A winnerId \in {pairs[k][1].id, pairs[k][2].id, NullId} :
        recordBattle(store, pairs[k][1].id, pairs[k][2].id, winnerId).err
          \notin {"notfound", "already"}

\* C25: when an item of the collection lists the id of another item of the
\* collection as an opponent, a battle between these two items was recorded;
\* and straight after a successful addAlbum the new item, stored last, is
\* returned by getPossibleBattles() in a pair with every other item.
C25_StaleReferencesHarmless ==
  /\ \A i, j \in 1..Len(store) :
       (i # j /\ Includes(store[i].battledWith, store[j].id))
         => {store[i].mbid, store[j].mbid} \in played
  /\ Returned("addAlbum") =>
       LET albums == getAlbums(store)
           pairs == getPossibleBattles(store)
       IN  \A i \in 1..(Len(albums) - 1) :
             \E k \in 1..Len(pairs) : pairs[k] = <<albums[i], albums[Len(albums)]>>

\* The items of before that are still in after, followed by mbid, have the
\* points and the opponents they had, except those whose id is in ids.
ScoresKept(before, after, ids) ==
  \A i \in 1..Len(before) : \A j \in 1..Len(after) :
    (before[i].mbid = after[j].mbid /\ before[i].id \notin ids)
      => /\ after[j].points = before[i].points
         /\ after[j].battledWith = before[i].battledWith

\* C26: a step of addAlbum, deleteAlbum, updateAlbumRank or reorderAlbums
\* leaves the points and battledWith of every item that stays in the
\* collection as they were; and a successful recordBattle(idA, idB, w),
\* whatever its arguments, leaves those of every item with another id than
\* idA and idB as they were and keeps the same items in the collection.
C26_ScoresChangeOnlyInBattle ==
  /\ [][last'.op \in {"addAlbum", "deleteAlbum", "updateAlbumRank", "reorderAlbums"}
         => ScoresKept(store, store', {})]_vars
  /\ [](\A idA, idB \in PresentIds : \A winnerId \in WinnerArgs(idA, idB) :
          LET r == recordBattle(store, idA, idB, winnerId)
          IN  r.err = "none" =>
                /\ ScoresKept(store, r.store, {idA, idB})
                /\ Len(r.store) = Len(store)
                /\ Ranked(r.store) = Ranked(store))

\* The winner of a battle kept its 3 points and its opponent's id through the
\* removal of that opponent.
C26_Witness ==
  /\ Returned("deleteAlbum")
  /\ Len(store) = 1
  /\ store[1].points = 3
  /\ Len(store[1].battledWith) = 1

\* The position in the stored array st of the record with this id.
StoredPosition(st, id) == CHOOSE i \in 1..Len(st) : st[i].id = id

\* C27: getAlbums() returns every stored record, and of two returned items
\* with equal points the one stored first comes first.
C27_LoadKeepsTiesInStoredOrder ==
  LET albums == getAlbums(store)
  IN  /\ Len(albums) = Len(store)
      /\ \A k, l \in 1..Len(albums) :
           (k < l /\ albums[k].points = albums[l].points)
             => StoredPosition(store, albums[k].id) < StoredPosition(store, albums[l].id)

\* A load has run on three stored records of which the first and the last
\* have 1 point and the middle one has 3.
C27_Witness ==
  /\ Returned("getAlbums")
  /\ Len(store) = 3
  /\ \A i \in 1..3 : "points" \in DOMAIN store[i]
  /\ store[1].points = 1 /\ store[2].points = 3 /\ store[3].points = 1
  /\ getAlbums(store)[2].id = store[1].id
  /\ getAlbums(store)[3].id = store[3].id

\* C28: getAlbums() returns every stored record with its own points and
\* battledWith where it has them, with 0 points where it has no points and
\* with no opponents where it has no battledWith, id and mbid as stored; and
\* after a successful addAlbum, deleteAlbum, updateAlbumRank, reorderAlbums
\* or recordBattle every stored record has points and battledWith.
C28_MissingFieldsFilled ==
  LET albums == getAlbums(store)
  IN  /\ Len(albums) = Len(store)
      /\ \A i \in 1..Len(store) :
           LET album == ByMbid(albums, store[i].mbid)
           IN  /\ album.id = store[i].id
               /\ album.points =
                    IF "points" \in DOMAIN store[i] THEN store[i].points ELSE 0
               /\ album.battledWith =
                    IF "battledWith" \in DOMAIN store[i] THEN store[i].battledWith ELSE <<>>
      /\ (last.err = "none" /\ last.op \in {"addAlbum", "deleteAlbum", "updateAlbumRank",
                                             "reorderAlbums", "recordBattle"})
           => \A i \in 1..Len(store) : {"points", "battledWith"} \subseteq DOMAIN store[i]

\* A third item was added to two earlier records, one of which had no points
\* and the other an opponent and 3 points: the three are stored with both
\* fields.
C28_Witness ==
  /\ Returned("addAlbum")
  /\ Len(store) = 3
  /\ \A i \in 1..3 : {"points", "battledWith"} \subseteq DOMAIN store[i]
  /\ store[1].mbid = "m2" /\ store[1].points = 3 /\ store[1].battledWith = <<AlbumId(1)>>
  /\ store[2].mbid = "m1" /\ store[2].points = 0 /\ store[2].battledWith = <<>>

\* C30: after a successful addAlbum, deleteAlbum, recordBattle,
\* updateAlbumRank or reorderAlbums the record stored at position k has rank
\* k (positions counted from 1), so that the next getAlbums() returns every
\* item with the rank that was stored.
C30_StoredInRankOrder ==
  (last.err = "none" /\ last.op \in {"addAlbum", "deleteAlbum", "recordBattle",
                                     "updateAlbumRank", "reorderAlbums"})
    => /\ \A k \in 1..Len(store) : store[k].rank = k
       /\ \A k \in 1..Len(store) :
            ByMbid(getAlbums(store), store[k].mbid).rank = store[k].rank

====
